---- MODULE Spec2Model ----
(***************************************************************************)
(* Model of the ocean-creature genetic algorithm: Environment              *)
(* (environment.py), Creature (creature.py) and Simulation (simulation.py).*)
(*                                                                         *)
(* Numbers.  Real-valued scores and continuous traits are kept exactly as  *)
(* integers counting hundredths (2.0 is 200, 0.15 is 15).  Depths are in   *)
(* metres; random.uniform draws of a depth variation are taken from        *)
(* integer sample sets.  Floating-point rounding is not modelled.          *)
(*                                                                         *)
(* Objects.  A Creature object is a record; its field id stands for the    *)
(* object's identity (each constructor call takes a fresh id).  A Python   *)
(* list of creature objects that are members of self.creatures is a        *)
(* sequence of indices into creatures.                                     *)
(***************************************************************************)
EXTENDS Integers, Sequences, FiniteSets, TLC

VARIABLES
    creatures,         \* self.creatures
    generations,       \* self.generations
    generation_count,  \* self.generation_count
    species_log,       \* self.species_log
    pc,                \* position of the single thread of control
    caller,            \* who called run_generation: "direct" or "run"
    gen,               \* run(): the loop variable gen
    survivors,         \* run_generation(): local survivors (indices)
    next_gen,          \* run_generation(): local next_gen
    population_target, \* run_generation(): local population_target
    last_call,         \* the entry point called last
    raised,            \* the exception the last call ended with, or "none"
    summary,           \* the value get_species_summary returned last
    callback_calls,    \* how often a progress callback has been invoked
    history,           \* bookkeeping about the calls made so far (not program state);
                       \* history.parents names, for each member of next_gen, the
                       \* creature that mutate() was called on and the loop that did it
    next_id            \* the identity the next constructed Creature gets

vars == <<creatures, generations, generation_count, species_log, pc, caller, gen,
          survivors, next_gen, population_target, last_call, raised, summary,
          callback_calls, history, next_id>>

----------------------------------------------------------------------------
(* Bounds of the model *)

MaxCreatures == 2
MaxGenerations == 2

----------------------------------------------------------------------------
(* Small helpers *)

Min(a, b) == IF a <= b THEN a ELSE b
Max(a, b) == IF a >= b THEN a ELSE b
Abs(a) == IF a >= 0 THEN a ELSE -a

EmptyDraw == [k \in {} |-> 0]

RECURSIVE Gcd(_, _)
Gcd(a, b) == IF b = 0 THEN a ELSE Gcd(b, a % b)

\* The exact quotient num / den (den > 0) as a reduced fraction.
Quotient(num, den) ==
    LET g == Gcd(Abs(num), den)
    IN  IF g = 0 THEN <<0, 1>> ELSE <<num \div g, den \div g>>

----------------------------------------------------------------------------
(* environment.py *)

OceanLayer(name, depth_range, light_intensity, food_type) ==
    [name |-> name, depth_range |-> depth_range,
     light_intensity |-> light_intensity, food_type |-> food_type]

\* Environment.layers; light intensities in hundredths.
layers ==
    << OceanLayer("Surface", <<0, 100>>, 100, "photosynthesis"),
       OceanLayer("Mid-depth", <<100, 1000>>, 30, "organics"),
       OceanLayer("Deep Sea", <<1000, 4000>>, 5, "marine snow"),
       OceanLayer("Abyss", <<4000, 6000>>, 1, "chemosynthesis") >>

\* get_layer whose range test includes the upper end.
get_layer_inclusive(depth) ==
    LET hits == {i \in DOMAIN layers :
                    layers[i].depth_range[1] <= depth /\ depth <= layers[i].depth_range[2]}
    IN  IF hits = {} THEN layers[Len(layers)]
        ELSE layers[CHOOSE i \in hits : \A j \in hits : i <= j]

\* Environment.get_layer: the first layer whose range holds depth, else the last.
get_layer(depth) ==
    LET hits == {i \in DOMAIN layers :
                    layers[i].depth_range[1] <= depth /\ depth < layers[i].depth_range[2]}
    IN  IF hits = {} THEN layers[Len(layers)]
        ELSE layers[CHOOSE i \in hits : \A j \in hits : i <= j]

----------------------------------------------------------------------------
(* creature.py: the trait domains *)

possible_vision ==
    {"eyes", "no_eyes", "bioluminescence", "echolocation", "lateral_line", "compound_eyes"}
possible_food_strategy ==
    {"photosynthesis", "filter", "predator", "scavenger", "parasite",
     "chemosynthesis", "detritivore", "carnivore", "herbivore", "omnivore"}
possible_body_type ==
    {"streamlined", "flat", "spherical", "elongated", "gelatinous", "armored"}
possible_locomotion ==
    {"swimming", "crawling", "floating", "jet_propulsion", "undulating", "sessile"}
possible_size == {"microscopic", "small", "medium", "large", "giant"}
possible_pressure_adaptation == {"low", "medium", "high", "extreme"}
possible_temperature_tolerance == {"cold", "moderate", "warm", "extremophile"}
possible_defense ==
    {"camouflage", "spines", "toxins", "speed", "armor", "mimicry", "none"}
possible_social_behavior ==
    {"solitary", "small_groups", "schooling", "colonial", "symbiotic"}

\* mutate(): categorical_traits, trait name -> domain.
categorical_traits ==
    [vision |-> possible_vision,
     food_strategy |-> possible_food_strategy,
     body_type |-> possible_body_type,
     locomotion |-> possible_locomotion,
     size |-> possible_size,
     pressure_adaptation |-> possible_pressure_adaptation,
     temperature_tolerance |-> possible_temperature_tolerance,
     defense_mechanism |-> possible_defense,
     social_behavior |-> possible_social_behavior]

\* mutate(): numerical_traits, trait name -> (min_val, max_val, mutation_strength),
\* in hundredths.  __init__ draws each trait uniformly from [min_val, max_val].
numerical_traits ==
    [move_eff |-> <<30, 200, 15>>,
     repro_rate |-> <<20, 250, 20>>,
     metabolic_rate |-> <<20, 200, 10>>,
     oxygen_efficiency |-> <<30, 180, 10>>,
     light_production |-> <<0, 100, 10>>,
     pressure_tolerance |-> <<10, 200, 15>>,
     salinity_tolerance |-> <<30, 150, 10>>,
     aggression |-> <<0, 100, 10>>,
     camouflage_ability |-> <<0, 100, 10>>,
     migration_tendency |-> <<0, 100, 10>>]

TraitKeys == DOMAIN categorical_traits \cup DOMAIN numerical_traits

\* depth_prefix whose band test includes the upper end.
depth_prefix_inclusive(depth) ==
    IF 0 <= depth /\ depth <= 200 THEN "Superficie"
    ELSE IF 200 <= depth /\ depth <= 1000 THEN "Meso"
    ELSE IF 1000 <= depth /\ depth <= 4000 THEN "Bathy"
    ELSE "Abysso"

\* Creature.generate_species_name as a function of (depth, vision); the name
\* "<prefix> <suffix>" is kept as the pair <<prefix, suffix>>.
depth_prefix(depth) ==
    IF 0 <= depth /\ depth < 200 THEN "Superficie"
    ELSE IF 200 <= depth /\ depth < 1000 THEN "Meso"
    ELSE IF 1000 <= depth /\ depth < 4000 THEN "Bathy"
    ELSE IF 4000 <= depth /\ depth < 6000 THEN "Abysso"
    ELSE "Abysso"

vision_suffix(vision) ==
    CASE vision = "eyes" -> "opticus"
      [] vision = "no_eyes" -> "caecus"
      [] vision = "bioluminescence" -> "lucidus"
      [] vision = "echolocation" -> "sonarus"
      [] vision = "lateral_line" -> "lateralis"
      [] vision = "compound_eyes" -> "multiopus"
      [] OTHER -> "mysticus"

generate_species_name(depth, traits) ==
    <<depth_prefix(depth), vision_suffix(traits["vision"])>>

\* Creature.__init__(depth, traits) with the traits given (or already drawn).
\* traits_ref names the mapping object that self.traits refers to: lines 27-30
\* give every creature a mapping of its own, a copy of the one passed in or a
\* new one.
Creature(id, depth, traits) ==
    [id |-> id, traits |-> traits, traits_ref |-> id, depth |-> depth, alive |-> TRUE,
     fitness |-> 0, age |-> 0, energy |-> 10000,
     species_name |-> generate_species_name(depth, traits)]

\* A store into the mapping object ref: every creature whose traits refer to
\* that object sees the new contents.
StoreTraits(pop, ref, traits) ==
    [i \in DOMAIN pop |->
        IF pop[i].traits_ref = ref THEN [pop[i] EXCEPT !.traits = traits] ELSE pop[i]]

\* The mutation test with <= in place of <.
MutationTriggeredInclusive(roll, mutation_rate) == roll <= mutation_rate

\* mutate(), lines 119 and 137: random.random() < mutation_rate, both in
\* hundredths; random.random() lies in [0.0, 1.0).
MutationTriggered(roll, mutation_rate) == roll < mutation_rate

\* mutate(), lines 118-139: which traits one call mutates and to what.  rolls
\* gives each trait's random.random(), choices each categorical trait's
\* random.choice, changes each numerical trait's random.uniform.  The result
\* is the pair <<catDraw, numDraw>> handed to mutate below.
MutationDraw(mutation_rate, rolls, choices, changes) ==
    << [k \in {t \in DOMAIN categorical_traits :
                    MutationTriggered(rolls[t], mutation_rate)} |-> choices[k]],
       [k \in {t \in DOMAIN numerical_traits :
                    MutationTriggered(rolls[t], mutation_rate)} |-> changes[k]] >>

\* Clamp that lets every value through.
ClampNothing(lo, hi, x) == x

\* mutate(), line 139: max(min_val, min(max_val, x)).
Clamp(lo, hi, x) == Max(lo, Min(hi, x))

\* mutate that builds new_traits from the categorical list and the mutated
\* numerical traits only, instead of from a copy of the parent's traits.
mutate_without_copy(c, catDraw, numDraw, id) ==
    LET new_traits ==
            [k \in DOMAIN categorical_traits \cup DOMAIN numDraw |->
                IF k \in DOMAIN catDraw THEN catDraw[k]
                ELSE IF k \in DOMAIN numDraw
                     THEN Clamp(numerical_traits[k][1], numerical_traits[k][2],
                                c.traits[k] + numDraw[k])
                     ELSE c.traits[k]]
    IN  Creature(id, c.depth, new_traits)

\* mutate that writes into the parent's own mapping and hands it on uncopied.
mutate_sharing_traits(c, catDraw, numDraw, id) ==
    LET new_traits ==
            [k \in DOMAIN c.traits \cup DOMAIN catDraw |->
                IF k \in DOMAIN catDraw THEN catDraw[k]
                ELSE IF k \in DOMAIN numDraw
                     THEN Clamp(numerical_traits[k][1], numerical_traits[k][2],
                                c.traits[k] + numDraw[k])
                     ELSE c.traits[k]]
        offspring == Creature(id, c.depth, new_traits)
    IN  [offspring EXCEPT !.traits_ref = c.traits_ref]

\* mutate whose offspring starts with the parent's fitness.
mutate_keeping_fitness(c, catDraw, numDraw, id) ==
    LET new_traits ==
            [k \in DOMAIN c.traits \cup DOMAIN catDraw |->
                IF k \in DOMAIN catDraw THEN catDraw[k]
                ELSE IF k \in DOMAIN numDraw
                     THEN Clamp(numerical_traits[k][1], numerical_traits[k][2],
                                c.traits[k] + numDraw[k])
                     ELSE c.traits[k]]
    IN  [Creature(id, c.depth, new_traits) EXCEPT !.fitness = c.fitness]

\* mutate as a copy of the whole parent object: alive and fitness are carried over.
mutate_keeping_state(c, catDraw, numDraw, id) ==
    LET new_traits ==
            [k \in DOMAIN c.traits \cup DOMAIN catDraw |->
                IF k \in DOMAIN catDraw THEN catDraw[k]
                ELSE IF k \in DOMAIN numDraw
                     THEN Clamp(numerical_traits[k][1], numerical_traits[k][2],
                                c.traits[k] + numDraw[k])
                     ELSE c.traits[k]]
    IN  [c EXCEPT !.id = id, !.traits = new_traits, !.traits_ref = id,
                  !.species_name = generate_species_name(c.depth, new_traits)]

\* Creature.mutate.  catDraw maps every categorical trait whose random() fell
\* below mutation_rate to the value random.choice gave it; numDraw maps every
\* numerical trait whose random() fell below mutation_rate to its change.
mutate(c, catDraw, numDraw, id) ==
    LET new_traits ==
            [k \in DOMAIN c.traits \cup DOMAIN catDraw |->
                IF k \in DOMAIN catDraw THEN catDraw[k]
                ELSE IF k \in DOMAIN numDraw
                     THEN Clamp(numerical_traits[k][1], numerical_traits[k][2],
                                c.traits[k] + numDraw[k])
                     ELSE c.traits[k]]
        offspring == Creature(id, c.depth, new_traits)
    IN  [offspring EXCEPT !.species_name = generate_species_name(offspring.depth, new_traits)]

\* Creature.calculate_trait_compatibility: the four contributions.
VisionScore(depth, vision) ==
    IF depth < 200
    THEN (IF vision \in {"eyes", "compound_eyes"} THEN 200
          ELSE IF vision = "bioluminescence" THEN -50 ELSE 0)
    ELSE IF depth < 1000
    THEN (IF vision \in {"eyes", "bioluminescence"} THEN 150 ELSE 0)
    ELSE (IF vision \in {"bioluminescence", "echolocation", "lateral_line", "no_eyes"}
          THEN 200
          ELSE IF vision = "eyes" THEN -100 ELSE 0)

pressure_zones ==
    << <<0, 200, "low">>, <<200, 1000, "medium">>,
       <<1000, 4000, "high">>, <<4000, 6000, "extreme">> >>

required_pressure(depth) ==
    LET hits == {i \in DOMAIN pressure_zones :
                    pressure_zones[i][1] <= depth /\ depth < pressure_zones[i][2]}
    IN  IF hits = {} THEN "low"
        ELSE pressure_zones[CHOOSE i \in hits : \A j \in hits : i <= j][3]

\* list(pressure_zones.values()).index(p); 0 stands for the ValueError of a miss.
PressureIndex(p) ==
    LET hits == {i \in DOMAIN pressure_zones : pressure_zones[i][3] = p}
    IN  IF hits = {} THEN 0 ELSE CHOOSE i \in hits : TRUE

PressureScore(depth, adaptation) ==
    IF adaptation = required_pressure(depth) THEN 150
    ELSE IF Abs(PressureIndex(adaptation) - PressureIndex(required_pressure(depth))) = 1
         THEN 50
         ELSE -100

FoodScore(food_type, food_strategy) ==
    IF food_type = "photosynthesis"
    THEN (IF food_strategy \in {"photosynthesis", "herbivore"} THEN 200 ELSE 0)
    ELSE IF food_type = "chemosynthesis"
    THEN (IF food_strategy \in {"chemosynthesis", "scavenger", "detritivore"} THEN 180 ELSE 0)
    ELSE IF food_type = "marine snow"
    THEN (IF food_strategy \in {"filter", "detritivore", "scavenger"} THEN 150 ELSE 0)
    ELSE 0

efficient_combinations(locomotion) ==
    CASE locomotion = "swimming" -> {"streamlined", "elongated"}
      [] locomotion = "floating" -> {"gelatinous", "spherical"}
      [] locomotion = "crawling" -> {"flat", "armored"}
      [] locomotion = "jet_propulsion" -> {"spherical", "streamlined"}
      [] OTHER -> {}

SynergyScore(body_type, locomotion) ==
    IF body_type \in efficient_combinations(locomotion) THEN 50 ELSE 0

calculate_trait_compatibility(c, layer) ==
    VisionScore(c.depth, c.traits["vision"])
    + PressureScore(c.depth, c.traits["pressure_adaptation"])
    + FoodScore(layer.food_type, c.traits["food_strategy"])
    + SynergyScore(c.traits["body_type"], c.traits["locomotion"])

----------------------------------------------------------------------------
(* simulation.py: evaluate_fitness *)

\* evaluate_fitness(): the food_bonuses table, keyed (layer.food_type, food_strategy);
\* 0 when the key is not in the table.
food_bonuses(food_type, food_strategy) ==
    CASE food_type = "photosynthesis" /\ food_strategy = "photosynthesis" -> 250
      [] food_type = "photosynthesis" /\ food_strategy = "herbivore" -> 200
      [] food_type = "chemosynthesis" /\ food_strategy = "chemosynthesis" -> 220
      [] food_type = "chemosynthesis" /\ food_strategy = "scavenger" -> 180
      [] food_type = "chemosynthesis" /\ food_strategy = "detritivore" -> 160
      [] food_type = "marine snow" /\ food_strategy = "filter" -> 180
      [] food_type = "marine snow" /\ food_strategy = "detritivore" -> 160
      [] food_type = "marine snow" /\ food_strategy = "scavenger" -> 140
      [] food_type = "organics" /\ food_strategy = "filter" -> 150
      [] food_type = "organics" /\ food_strategy = "predator" -> 130
      [] food_type = "organics" /\ food_strategy = "carnivore" -> 140
      [] food_type = "organics" /\ food_strategy = "omnivore" -> 120
      [] OTHER -> 0

\* The local fit of evaluate_fitness when it reaches line 66.  The _evaluate_*
\* helpers (lines 43-64) receive fit by value and return nothing: the caller's
\* fit is what lines 20 and 40 made it.
RawFitness(c) ==
    LET layer == get_layer(c.depth)
    IN  calculate_trait_compatibility(c, layer)
        + food_bonuses(layer.food_type, c.traits["food_strategy"])

\* calculate_trait_compatibility(), lines 181-182: list.index raises ValueError
\* for a pressure_adaptation that is no value of pressure_zones.
CompatRaises(c) ==
    /\ c.traits["pressure_adaptation"] # required_pressure(c.depth)
    /\ PressureIndex(c.traits["pressure_adaptation"]) = 0

\* What each _evaluate_* helper adds to its own parameter fit, in hundredths.
evaluate_vision_fitness(c) ==
    LET vision == c.traits["vision"]
    IN  IF c.depth < 200
        THEN CASE vision = "eyes" -> 200 [] vision = "compound_eyes" -> 180
               [] vision = "lateral_line" -> 50 [] vision = "bioluminescence" -> -80
               [] vision = "echolocation" -> 20 [] vision = "no_eyes" -> -100
               [] OTHER -> 0
        ELSE IF c.depth < 1000
        THEN CASE vision = "eyes" -> 120 [] vision = "bioluminescence" -> 150
               [] vision = "lateral_line" -> 100 [] vision = "compound_eyes" -> 80
               [] vision = "echolocation" -> 120 [] vision = "no_eyes" -> 50
               [] OTHER -> 0
        ELSE CASE vision = "bioluminescence" -> 220 [] vision = "echolocation" -> 200
               [] vision = "lateral_line" -> 180 [] vision = "no_eyes" -> 150
               [] vision = "eyes" -> -150 [] vision = "compound_eyes" -> -120
               [] OTHER -> 0

evaluate_pressure_fitness(c) ==
    LET pressure_adapt == c.traits["pressure_adaptation"]
    IN  IF c.depth < 200 /\ pressure_adapt = "low" THEN 150
        ELSE IF c.depth < 1000 /\ pressure_adapt = "medium" THEN 150
        ELSE IF c.depth < 4000 /\ pressure_adapt = "high" THEN 150
        ELSE IF c.depth >= 4000 /\ pressure_adapt = "extreme" THEN 200
        ELSE -100

evaluate_locomotion_fitness(c) ==
    LET body == c.traits["body_type"]
        locomotion == c.traits["locomotion"]
        synergy ==
            CASE body = "streamlined" /\ locomotion = "swimming" -> 150
              [] body = "elongated" /\ locomotion = "undulating" -> 130
              [] body = "gelatinous" /\ locomotion = "floating" -> 120
              [] body = "spherical" /\ locomotion = "jet_propulsion" -> 140
              [] body = "flat" /\ locomotion = "crawling" -> 110
              [] body = "armored" /\ locomotion = "crawling" -> 80
              [] OTHER -> 0
    IN  synergy + (IF locomotion = "sessile"
                   THEN (IF c.depth > 2000 THEN 100 ELSE 50)
                   ELSE 0)

evaluate_size_fitness(c) ==
    LET size == c.traits["size"]
    IN  IF c.depth < 200
        THEN CASE size = "microscopic" -> 80 [] size = "small" -> 100
               [] size = "medium" -> 120 [] size = "large" -> 100
               [] size = "giant" -> 60 [] OTHER -> 0
        ELSE IF c.depth < 1000
        THEN CASE size = "microscopic" -> 60 [] size = "small" -> 120
               [] size = "medium" -> 150 [] size = "large" -> 100
               [] size = "giant" -> 40 [] OTHER -> 0
        ELSE CASE size = "microscopic" -> 100 [] size = "small" -> 130
               [] size = "medium" -> 100 [] size = "large" -> 70
               [] size = "giant" -> 30 [] OTHER -> 0

evaluate_defense_fitness(c) ==
    LET defense == c.traits["defense_mechanism"]
    IN  IF c.depth < 1000
        THEN CASE defense = "speed" -> 120 [] defense = "camouflage" -> 100
               [] defense = "toxins" -> 110 [] defense = "spines" -> 80
               [] defense = "armor" -> 60 [] defense = "mimicry" -> 100
               [] defense = "none" -> -50 [] OTHER -> 0
        ELSE CASE defense = "bioluminescence" -> 130 [] defense = "camouflage" -> 80
               [] defense = "toxins" -> 100 [] defense = "armor" -> 100
               [] defense = "spines" -> 70 [] defense = "speed" -> 60
               [] defense = "none" -> 0 [] OTHER -> 0

evaluate_social_fitness(c) ==
    LET social == c.traits["social_behavior"]
    IN  IF c.depth < 1000
        THEN CASE social = "schooling" -> 100 [] social = "small_groups" -> 80
               [] social = "colonial" -> 60 [] social = "symbiotic" -> 70
               [] social = "solitary" -> 30 [] OTHER -> 0
        ELSE CASE social = "solitary" -> 100 [] social = "symbiotic" -> 120
               [] social = "small_groups" -> 40 [] social = "schooling" -> 20
               [] social = "colonial" -> 80 [] OTHER -> 0

evaluate_metabolic_fitness(c) ==
    IF c.depth > 2000
    THEN (IF c.traits["metabolic_rate"] < 100 THEN 100 ELSE 0)
         + (IF c.traits["oxygen_efficiency"] > 120 THEN 80 ELSE 0)
    ELSE (IF 80 <= c.traits["metabolic_rate"] /\ c.traits["metabolic_rate"] <= 150
          THEN 50 ELSE 0)

\* _evaluate_tolerance_fitness, in units of 1/6000 (a hundredth is 60 of them):
\* abs(pressure_tolerance - min(2.0, depth / 3000.0)) * 0.5 is
\* abs(30 * pressure_tolerance - min(6000, depth)) of these units.
evaluate_tolerance_fitness(c) ==
    LET temp_tolerance == c.traits["temperature_tolerance"]
        temperature ==
            IF c.depth > 3000
            THEN (IF temp_tolerance \in {"cold", "extremophile"} THEN 80 ELSE 0)
            ELSE IF c.depth < 500
            THEN (IF temp_tolerance \in {"moderate", "warm"} THEN 60 ELSE 0)
            ELSE 0
    IN  60 * temperature - Abs(30 * c.traits["pressure_tolerance"] - Min(6000, c.depth))

\* evaluate_fitness that stores the raw score unclamped.
evaluate_fitness_unclamped(c) == RawFitness(c)

\* evaluate_fitness(creature): the value stored in creature.fitness.
evaluate_fitness(c) == Max(0, RawFitness(c))

\* The survival test with >= in place of >.
IsSurvivorAtLeast(fitness) == fitness >= 100

\* run_generation(), line 217: the survival test.
IsSurvivor(fitness) == fitness > 100

\* Evaluated that stores the fitness and leaves the alive flag as it was.
EvaluatedFitnessOnly(c) == [c EXCEPT !.fitness = evaluate_fitness(c)]

\* run_generation(), lines 215-217, for one creature.
Evaluated(c) ==
    LET f == evaluate_fitness(c)
    IN  [c EXCEPT !.fitness = f, !.alive = IsSurvivor(f)]

----------------------------------------------------------------------------
(* simulation.py: species aggregation *)

AliveIdx(pop) == {i \in DOMAIN pop : pop[i].alive}

RECURSIVE SumFitness(_, _)
SumFitness(pop, idx) ==
    IF idx = {} THEN 0
    ELSE LET i == CHOOSE j \in idx : TRUE
         IN  pop[i].fitness + SumFitness(pop, idx \ {i})

\* _log_species_diversity(): species_count; avg_fitness is the exact quotient.
SpeciesCount(pop) ==
    LET names == {pop[i].species_name : i \in AliveIdx(pop)}
    IN  [name \in names |->
            LET members == {i \in AliveIdx(pop) : pop[i].species_name = name}
                depths == {pop[i].depth : i \in members}
            IN  [count |-> Cardinality(members),
                 avg_fitness |-> Quotient(SumFitness(pop, members), Cardinality(members)),
                 depth_range |->
                    <<CHOOSE d \in depths : \A e \in depths : d <= e,
                      CHOOSE d \in depths : \A e \in depths : d >= e>>]]

\* LogEntry taken after generation_count was incremented.
LogEntryAfterIncrement(pop, generation) ==
    [generation |-> generation + 1,
     species |-> SpeciesCount(pop),
     total_species |-> Cardinality(DOMAIN SpeciesCount(pop))]

\* _log_species_diversity(): the entry appended to species_log.
LogEntry(pop, generation) ==
    [generation |-> generation,
     species |-> SpeciesCount(pop),
     total_species |-> Cardinality(DOMAIN SpeciesCount(pop))]

\* AppendLog that keeps only the newest entry.
AppendLogOverwrite(log, entry) == <<entry>>

\* _log_species_diversity(), line 281: self.species_log.append(entry).
AppendLog(log, entry) == Append(log, entry)

\* get_species_summary(): line 316 evaluates min(list, number) for the first
\* alive creature, which raises TypeError.
SummaryRaises(pop) == AliveIdx(pop) # {}

\* get_species_summary(): the mapping returned when no line raised.
SummaryValue(pop) == [name \in {} |-> 0]

----------------------------------------------------------------------------
(* simulation.py: run_generation, selection and reproduction *)

\* max(self.creatures, key=fitness): the first creature of maximal fitness.
FittestIdx(pop) ==
    CHOOSE i \in DOMAIN pop :
        /\ \A j \in DOMAIN pop : pop[j].fitness <= pop[i].fitness
        /\ \A j \in DOMAIN pop : pop[j].fitness = pop[i].fitness => i <= j

RECURSIVE AliveSeq(_, _)
AliveSeq(pop, i) ==
    IF i > Len(pop) THEN <<>>
    ELSE (IF pop[i].alive THEN <<i>> ELSE <<>>) \o AliveSeq(pop, i + 1)

\* SelectSurvivors with a top-five fallback whenever fewer than five survive.
SelectSurvivorsTopFive(pop) ==
    IF Len(AliveSeq(pop, 1)) >= 5 THEN AliveSeq(pop, 1)
    ELSE LET all == [i \in 1..Len(pop) |-> i]
             rank(k) == Cardinality({j \in DOMAIN pop :
                            \/ pop[j].fitness > pop[k].fitness
                            \/ pop[j].fitness = pop[k].fitness /\ j < k}) + 1
             sorted == [r \in 1..Len(pop) |-> CHOOSE k \in DOMAIN pop : rank(k) = r]
         IN  SubSeq(sorted, 1, Min(5, Len(pop)))

\* SelectSurvivors that takes every creature of the population as a survivor.
SelectSurvivorsEveryone(pop) == [i \in 1..Len(pop) |-> i]

\* run_generation(), lines 223-226 (the population is not empty).
SelectSurvivors(pop) ==
    IF AliveSeq(pop, 1) # <<>> THEN AliveSeq(pop, 1) ELSE <<FittestIdx(pop)>>

\* offspring_num with floor(repro_rate) as base_offspring, without max(1, .).
offspring_num_floor(c) ==
    ((c.traits["repro_rate"] \div 100) * Min(400, c.fitness)) \div 200

\* run_generation(), lines 234-236.
offspring_num(c) ==
    LET base_offspring == Max(100, c.traits["repro_rate"]) \div 100
    IN  (base_offspring * Min(400, c.fitness)) \div 200

Repeat(x, n) == [k \in 1..n |-> x]

RECURSIVE ParentsFrom(_, _, _)
ParentsFrom(pop, surv, room) ==
    IF surv = <<>> \/ room <= 0 THEN <<>>
    ELSE LET k == Min(room, offspring_num(pop[Head(surv)]))
         IN  Repeat(Head(surv), k) \o ParentsFrom(pop, Tail(surv), room - k)

\* MainParents with the survivors taken in order of descending fitness.
MainParentsByFitness(pop, surv, target) ==
    LET rank(k) == Cardinality({j \in DOMAIN surv :
                        \/ pop[surv[j]].fitness > pop[surv[k]].fitness
                        \/ pop[surv[j]].fitness = pop[surv[k]].fitness /\ j < k}) + 1
        sorted == [r \in 1..Len(surv) |-> surv[CHOOSE k \in DOMAIN surv : rank(k) = r]]
    IN  ParentsFrom(pop, sorted, target)

\* run_generation(), lines 232-248: the parent of each offspring the main loop
\* appends, in order.
MainParents(pop, surv, target) == ParentsFrom(pop, surv, target)

\* best_survivors without the [:5] slice: every survivor, sorted.
best_survivors_uncut(pop, surv) ==
    LET rank(k) == Cardinality({j \in DOMAIN surv :
                        \/ pop[surv[j]].fitness > pop[surv[k]].fitness
                        \/ pop[surv[j]].fitness = pop[surv[k]].fitness /\ j < k}) + 1
    IN  [r \in 1..Len(surv) |-> surv[CHOOSE k \in DOMAIN surv : rank(k) = r]]

\* sorted(survivors, key=fitness, reverse=True)[:5]: stable, descending.
best_survivors(pop, surv) ==
    LET rank(k) == Cardinality({j \in DOMAIN surv :
                        \/ pop[surv[j]].fitness > pop[surv[k]].fitness
                        \/ pop[surv[j]].fitness = pop[surv[k]].fitness /\ j < k}) + 1
        sorted == [r \in 1..Len(surv) |-> surv[CHOOSE k \in DOMAIN surv : rank(k) = r]]
    IN  SubSeq(sorted, 1, Min(5, Len(surv)))

\* PhaseAfter without the fill loop of lines 251-258.
PhaseAfterNoFill(pop, surv, target, ng) ==
    IF Len(ng) < Len(MainParents(pop, surv, target)) THEN "reproduce" ELSE "replace"

\* Where run_generation continues once next_gen holds ng.
PhaseAfter(pop, surv, target, ng) ==
    IF Len(ng) < Len(MainParents(pop, surv, target)) THEN "reproduce"
    ELSE IF Len(ng) < target THEN "fill"
    ELSE "replace"

\* new_depth without the clamp.
new_depth_unclamped(depth, depth_variation) == depth + depth_variation

\* run_generation(), line 243: max(0, min(6000, c.depth + depth_variation)).
new_depth(depth, depth_variation) == Max(0, Min(6000, depth + depth_variation))

\* The loop test of run() off by one.
RunLoopContinuesInclusive(g, gens) == g <= gens

\* run(), line 291: for gen in range(self.generations).
RunLoopContinues(g, gens) == g < gens

----------------------------------------------------------------------------
(* The outcomes of the random draws the model explores *)

\* One outcome of the trait draws of Creature.__init__.
BaseTraits ==
    [vision |-> "eyes", food_strategy |-> "parasite", move_eff |-> 100,
     repro_rate |-> 250, body_type |-> "streamlined", locomotion |-> "sessile",
     size |-> "medium", pressure_adaptation |-> "low",
     temperature_tolerance |-> "moderate", defense_mechanism |-> "none",
     social_behavior |-> "solitary", metabolic_rate |-> 100,
     oxygen_efficiency |-> 100, light_production |-> 50,
     pressure_tolerance |-> 100, salinity_tolerance |-> 100, aggression |-> 50,
     camouflage_ability |-> 50, migration_tendency |-> 50]

\* Outcomes <<depth, traits>> of Creature(depth=random.randint(0, 6000)):
\* fitness 3.5 with three offspring, exactly 1.0, 1.5 with no offspring,
\* a negative raw score, and 4.0 with four offspring.
InitDraws ==
    { <<150, BaseTraits>>,
      <<150, [BaseTraits EXCEPT !.vision = "no_eyes", !.pressure_adaptation = "medium",
                                !.locomotion = "swimming"]>>,
      <<150, [BaseTraits EXCEPT !.vision = "no_eyes", !.repro_rate = 50]>>,
      <<5800, BaseTraits>>,
      <<5800, [BaseTraits EXCEPT !.vision = "no_eyes", !.pressure_adaptation = "extreme",
                                 !.locomotion = "swimming"]>> }

\* Outcomes <<depth_variation, catDraw, numDraw>> of random.uniform(-500, 500)
\* and of the random draws of mutate() for one offspring of the main loop.
OffspringDraws ==
    { <<500, EmptyDraw, EmptyDraw>>,
      <<-500, "vision" :> "no_eyes", "repro_rate" :> 20>> }

\* Outcomes <<depth, catDraw, numDraw>> of random.randint(0, 6000) and of the
\* random draws of mutate() for one offspring of the fill loop.
FillDraws ==
    { <<6000, EmptyDraw, EmptyDraw>>,
      <<0, "vision" :> "no_eyes", "repro_rate" :> 20>> }

----------------------------------------------------------------------------
(* The state machine *)

NoSummary == [returned |-> FALSE, value |-> [name \in {} |-> 0]]

\* Simulation.__init__(n_creatures, generations)
Init ==
    \E n \in 0..MaxCreatures :
        /\ creatures \in {[i \in 1..n |-> Creature(i, d[i][1], d[i][2])] :
                            d \in [1..n -> InitDraws]}
        /\ generations \in 0..MaxGenerations
        /\ generation_count = 0
        /\ species_log = <<>>
        /\ pc = "idle"
        /\ caller = "none"
        /\ gen = 0
        /\ survivors = <<>>
        /\ next_gen = <<>>
        /\ population_target = 0
        /\ last_call = "none"
        /\ raised = "none"
        /\ summary = NoSummary
        /\ callback_calls = 0
        /\ history = [n_creatures |-> n, completed |-> 0, run_start |-> 0, run_calls |-> 0,
                      last_fill |-> 0, parents |-> <<>>]
        /\ next_id = n + 1

locals == <<survivors, next_gen, population_target>>

\* A caller invokes sim.run_generation().
CallRunGeneration ==
    /\ pc = "idle"
    /\ generation_count < MaxGenerations
    /\ Len(species_log) < MaxGenerations
    /\ pc' = "evaluate"
    /\ caller' = "direct"
    /\ last_call' = "run_generation"
    /\ raised' = "none"
    /\ summary' = NoSummary
    /\ UNCHANGED <<creatures, generations, generation_count, species_log, gen, locals,
                   callback_calls, history, next_id>>

\* run_generation(), lines 215-217.
Evaluate ==
    /\ pc = "evaluate"
    /\ creatures' = [i \in DOMAIN creatures |-> Evaluated(creatures[i])]
    /\ pc' = "log"
    /\ UNCHANGED <<generations, generation_count, species_log, caller, gen, locals,
                   last_call, raised, summary, callback_calls, history, next_id>>

\* run_generation(), line 220: self._log_species_diversity().
LogSpeciesDiversity ==
    /\ pc = "log"
    /\ species_log' = AppendLog(species_log, LogEntry(creatures, generation_count))
    /\ pc' = "select"
    /\ UNCHANGED <<creatures, generations, generation_count, caller, gen, locals,
                   last_call, raised, summary, callback_calls, history, next_id>>

\* run_generation(), lines 223-230.  max() of an empty population raises
\* ValueError, which ends run_generation and a run() that called it.
Select ==
    /\ pc = "select"
    /\ IF creatures = <<>>
       THEN /\ raised' = "ValueError"
            /\ pc' = "idle"
            /\ UNCHANGED locals
       ELSE /\ survivors' = SelectSurvivors(creatures)
            /\ next_gen' = <<>>
            /\ population_target' = Len(creatures)
            /\ pc' = PhaseAfter(creatures, survivors', population_target', next_gen')
            /\ UNCHANGED raised
    /\ UNCHANGED <<creatures, generations, generation_count, species_log, caller, gen,
                   last_call, summary, callback_calls, history, next_id>>

\* run_generation(), lines 238-248: one pass of the inner loop.
ReproduceOffspring ==
    /\ pc = "reproduce"
    /\ \E draw \in OffspringDraws :
        LET c == creatures[MainParents(creatures, survivors, population_target)
                                [Len(next_gen) + 1]]
            depth_variation == draw[1]
            offspring == [mutate(c, draw[2], draw[3], next_id)
                            EXCEPT !.depth = new_depth(c.depth, depth_variation)]
        IN  /\ next_gen' = Append(next_gen, offspring)
            /\ history' = [history EXCEPT !.parents =
                                Append(@, [parent |-> c.id, loop |-> "main"])]
    /\ next_id' = next_id + 1
    /\ pc' = PhaseAfter(creatures, survivors, population_target, next_gen')
    /\ UNCHANGED <<creatures, generations, generation_count, species_log, caller, gen,
                   survivors, population_target, last_call, raised, summary,
                   callback_calls>>

\* run_generation(), lines 254-258: one pass of the fill loop.
FillOffspring ==
    /\ pc = "fill"
    /\ \E k \in DOMAIN best_survivors(creatures, survivors), draw \in FillDraws :
        LET parent == creatures[best_survivors(creatures, survivors)[k]]
            offspring == [mutate(parent, draw[2], draw[3], next_id) EXCEPT !.depth = draw[1]]
        IN  /\ next_gen' = Append(next_gen, offspring)
            /\ history' = [history EXCEPT !.parents =
                                Append(@, [parent |-> parent.id, loop |-> "fill"])]
    /\ next_id' = next_id + 1
    /\ pc' = PhaseAfter(creatures, survivors, population_target, next_gen')
    /\ UNCHANGED <<creatures, generations, generation_count, species_log, caller, gen,
                   survivors, population_target, last_call, raised, summary,
                   callback_calls>>

\* run_generation(), lines 260-261, and the return to the caller.
Replace ==
    /\ pc = "replace"
    /\ creatures' = SubSeq(next_gen, 1, Min(population_target, Len(next_gen)))
    /\ generation_count' = generation_count + 1
    /\ history' = [history EXCEPT
                        !.completed = @ + 1,
                        !.last_fill = Len(next_gen)
                            - Len(MainParents(creatures, survivors, population_target)),
                        !.parents = <<>>]
    /\ survivors' = <<>>
    /\ next_gen' = <<>>
    /\ population_target' = 0
    /\ IF caller = "run"
       THEN pc' = "run_loop" /\ gen' = gen + 1
       ELSE pc' = "idle" /\ gen' = gen
    /\ UNCHANGED <<generations, species_log, caller, last_call, raised, summary,
                   callback_calls, next_id>>

\* A caller invokes sim.run().
CallRun ==
    /\ pc = "idle"
    /\ generation_count + generations <= MaxGenerations
    /\ Len(species_log) + generations <= MaxGenerations
    /\ pc' = "run_loop"
    /\ gen' = 0
    /\ caller' = "run"
    /\ last_call' = "run"
    /\ raised' = "none"
    /\ summary' = NoSummary
    /\ history' = [history EXCEPT !.run_start = generation_count, !.run_calls = 0]
    /\ UNCHANGED <<creatures, generations, generation_count, species_log, locals,
                   callback_calls, next_id>>

\* run(), line 291: the loop head; lines 294-297 and 299 only print.
RunLoop ==
    /\ pc = "run_loop"
    /\ IF RunLoopContinues(gen, generations)
       THEN /\ pc' = "evaluate"
            /\ history' = [history EXCEPT !.run_calls = @ + 1]
       ELSE /\ pc' = "idle"
            /\ UNCHANGED history
    /\ UNCHANGED <<creatures, generations, generation_count, species_log, caller, gen,
                   locals, last_call, raised, summary, callback_calls, next_id>>

\* A caller invokes sim.run(progress_callback=...), as main.py line 19 does.
\* run(self) takes no such parameter: the call raises TypeError before the
\* body runs, and the callback is never invoked.
CallRunWithCallback ==
    /\ pc = "idle"
    /\ last_call' = "run_with_callback"
    /\ raised' = "TypeError"
    /\ summary' = NoSummary
    /\ UNCHANGED <<creatures, generations, generation_count, species_log, pc, caller,
                   gen, locals, callback_calls, history, next_id>>

\* A caller invokes sim.get_species_summary().
GetSpeciesSummary ==
    /\ pc = "idle"
    /\ last_call' = "get_species_summary"
    /\ IF SummaryRaises(creatures)
       THEN raised' = "TypeError" /\ summary' = NoSummary
       ELSE raised' = "none"
            /\ summary' = [returned |-> TRUE, value |-> SummaryValue(creatures)]
    /\ UNCHANGED <<creatures, generations, generation_count, species_log, pc, caller,
                   gen, locals, callback_calls, history, next_id>>

Next ==
    \/ CallRunGeneration
    \/ Evaluate
    \/ LogSpeciesDiversity
    \/ Select
    \/ ReproduceOffspring
    \/ FillOffspring
    \/ Replace
    \/ CallRun
    \/ RunLoop
    \/ CallRunWithCallback
    \/ GetSpeciesSummary

Spec == Init /\ [][Next]_vars

----------------------------------------------------------------------------
(* Creature.mutate on its own: a lineage of creatures, each mutated from the
   one before.  creatures holds the lineage, history the draws of the last
   call. *)

MaxMutations == 2

\* Outcomes of the numerical draws of Creature.__init__: every continuous
\* trait at the low end, or at the high end, of its range.
LowTraits ==
    [k \in DOMAIN BaseTraits |->
        IF k \in DOMAIN numerical_traits THEN numerical_traits[k][1] ELSE BaseTraits[k]]
HighTraits ==
    [k \in DOMAIN BaseTraits |->
        IF k \in DOMAIN numerical_traits THEN numerical_traits[k][2] ELSE BaseTraits[k]]

MutateInitDraws == {150, 6000} \X {BaseTraits, LowTraits, HighTraits}

\* mutation_rate 0.0, the default 0.15, and 1.0.
RateDraws == {0, 15, 100}

\* Outcomes of the random.random() calls of one mutate(): all 0.0, all 0.99,
\* or 0.10 for vision and repro_rate and 0.99 for the rest.
RollDraws ==
    { [k \in TraitKeys |-> 0],
      [k \in TraitKeys |-> 99],
      [k \in TraitKeys |-> IF k \in {"vision", "repro_rate"} THEN 10 ELSE 99] }

\* Outcomes of the random.choice calls of one mutate().
ChoiceDraws ==
    { [vision |-> "no_eyes", food_strategy |-> "filter", body_type |-> "flat",
       locomotion |-> "crawling", size |-> "giant", pressure_adaptation |-> "extreme",
       temperature_tolerance |-> "cold", defense_mechanism |-> "spines",
       social_behavior |-> "colonial"],
      [vision |-> "eyes", food_strategy |-> "parasite", body_type |-> "streamlined",
       locomotion |-> "sessile", size |-> "medium", pressure_adaptation |-> "low",
       temperature_tolerance |-> "moderate", defense_mechanism |-> "none",
       social_behavior |-> "solitary"] }

\* Outcomes of the random.uniform(-strength, strength) calls of one mutate().
ChangeDraws ==
    { [k \in DOMAIN numerical_traits |-> numerical_traits[k][3]],
      [k \in DOMAIN numerical_traits |-> -numerical_traits[k][3]] }

NoMutation == [called |-> FALSE, mutation_rate |-> 0, rolls |-> EmptyDraw,
               catDraw |-> EmptyDraw, numDraw |-> EmptyDraw]

\* The <<fitness, alive>> an earlier run_generation left on the first creature:
\* never evaluated, above the threshold, and below it.
EvaluationDraws == {<<0, TRUE>>, <<350, TRUE>>, <<0, FALSE>>}

\* Outcomes <<trait, value>> of a caller's store creature.traits[trait] = value.
StoreDraws == {<<"vision", "echolocation">>, <<"repro_rate", 123>>}

InitMutate ==
    /\ creatures \in {<<[Creature(1, d[1], d[2]) EXCEPT !.fitness = e[1], !.alive = e[2]]>> :
                        d \in MutateInitDraws, e \in EvaluationDraws}
    /\ generations = 0
    /\ generation_count = 0
    /\ species_log = <<>>
    /\ pc = "mutate"
    /\ caller = "none"
    /\ gen = 0
    /\ survivors = <<>>
    /\ next_gen = <<>>
    /\ population_target = 0
    /\ last_call = "none"
    /\ raised = "none"
    /\ summary = NoSummary
    /\ callback_calls = 0
    /\ history = NoMutation
    /\ next_id = 2

\* The newest creature of the lineage is mutated: offspring = c.mutate(rate).
MutateStep ==
    /\ pc = "mutate"
    /\ Len(creatures) <= MaxMutations
    /\ \E mutation_rate \in RateDraws, rolls \in RollDraws,
          choices \in ChoiceDraws, changes \in ChangeDraws :
        LET draw == MutationDraw(mutation_rate, rolls, choices, changes)
            c == creatures[Len(creatures)]
            offspring == mutate(c, draw[1], draw[2], next_id)
        IN  /\ creatures' = Append(StoreTraits(creatures, offspring.traits_ref,
                                               offspring.traits), offspring)
            /\ history' = [called |-> TRUE, mutation_rate |-> mutation_rate,
                           rolls |-> rolls, catDraw |-> draw[1], numDraw |-> draw[2]]
    /\ next_id' = next_id + 1
    /\ last_call' = "mutate"
    /\ UNCHANGED <<generations, generation_count, species_log, pc, caller, gen, locals,
                   raised, summary, callback_calls>>

\* A caller stores into the traits of one creature of the lineage:
\* creature.traits[trait] = value.  The lineage is not mutated further.
SetTrait ==
    /\ pc = "mutate"
    /\ Len(creatures) >= 2
    /\ \E i \in DOMAIN creatures, store \in StoreDraws :
        creatures' = StoreTraits(creatures, creatures[i].traits_ref,
                                 [creatures[i].traits EXCEPT ![store[1]] = store[2]])
    /\ pc' = "stored"
    /\ last_call' = "set_trait"
    /\ UNCHANGED <<generations, generation_count, species_log, caller, gen, locals,
                   raised, summary, callback_calls, history, next_id>>

NextMutate == MutateStep \/ SetTrait

SpecMutate == InitMutate /\ [][NextMutate]_vars

----------------------------------------------------------------------------
(* One creature on its own: Environment.get_layer, generate_species_name and
   Simulation.evaluate_fitness applied to a creature built from given traits.
   creatures holds the creature, summary the value the last call returned. *)

\* Depths around every band boundary of environment.py and creature.py.
DepthSamples ==
    {-500, -1, 0, 1, 50, 99, 100, 101, 150, 199, 200, 201, 499, 500, 999, 1000, 1001,
     2000, 2001, 3000, 3001, 3999, 4000, 4001, 5800, 5999, 6000, 6001, 7000}

\* Trait mappings handed to Creature(depth, traits): BaseTraits with one
\* categorical trait set to a value of its domain or to a value outside it,
\* or with one continuous trait at an end of its range.
TraitSamples ==
    {[BaseTraits EXCEPT ![k] = v] :
        k \in DOMAIN categorical_traits, v \in possible_vision \cup {"unknown"}}
    \cup UNION {{[BaseTraits EXCEPT ![k] = v] : v \in categorical_traits[k]} :
                    k \in DOMAIN categorical_traits}
    \cup UNION {{[BaseTraits EXCEPT ![k] = numerical_traits[k][1]],
                 [BaseTraits EXCEPT ![k] = numerical_traits[k][2]]} :
                    k \in DOMAIN numerical_traits}

InitCreature ==
    /\ creatures \in {<<Creature(1, d, t)>> : d \in DepthSamples, t \in TraitSamples}
    /\ generations = 0
    /\ generation_count = 0
    /\ species_log = <<>>
    /\ pc = "creature"
    /\ caller = "none"
    /\ gen = 0
    /\ survivors = <<>>
    /\ next_gen = <<>>
    /\ population_target = 0
    /\ last_call = "none"
    /\ raised = "none"
    /\ summary = NoSummary
    /\ callback_calls = 0
    /\ history = NoMutation
    /\ next_id = 2

CreatureFrame ==
    UNCHANGED <<generations, generation_count, species_log, pc, caller, gen, locals,
                callback_calls, history, next_id>>

\* env.get_layer(creature.depth)
GetLayer ==
    /\ pc = "creature"
    /\ last_call' = "get_layer"
    /\ raised' = "none"
    /\ summary' = [returned |-> TRUE, value |-> get_layer(creatures[1].depth)]
    /\ UNCHANGED creatures
    /\ CreatureFrame

\* creature.generate_species_name()
GenerateSpeciesName ==
    /\ pc = "creature"
    /\ last_call' = "generate_species_name"
    /\ raised' = "none"
    /\ summary' = [returned |-> TRUE,
                   value |-> generate_species_name(creatures[1].depth, creatures[1].traits)]
    /\ UNCHANGED creatures
    /\ CreatureFrame

\* sim.evaluate_fitness(creature)
EvaluateFitness ==
    /\ pc = "creature"
    /\ last_call' = "evaluate_fitness"
    /\ summary' = NoSummary
    /\ IF CompatRaises(creatures[1])
       THEN raised' = "ValueError" /\ UNCHANGED creatures
       ELSE /\ raised' = "none"
            /\ creatures' = <<[creatures[1] EXCEPT !.fitness = evaluate_fitness(creatures[1])]>>
    /\ CreatureFrame

\* creature.calculate_trait_compatibility(env.get_layer(creature.depth))
CalculateTraitCompatibility ==
    /\ pc = "creature"
    /\ last_call' = "calculate_trait_compatibility"
    /\ IF CompatRaises(creatures[1])
       THEN raised' = "ValueError" /\ summary' = NoSummary
       ELSE /\ raised' = "none"
            /\ summary' = [returned |-> TRUE,
                           value |-> calculate_trait_compatibility(
                                        creatures[1], get_layer(creatures[1].depth))]
    /\ UNCHANGED creatures
    /\ CreatureFrame

NextCreature ==
    GetLayer \/ GenerateSpeciesName \/ EvaluateFitness \/ CalculateTraitCompatibility

SpecCreature == InitCreature /\ [][NextCreature]_vars

----------------------------------------------------------------------------
(* One run_generation on populations with more than five survivors that leave
   slots for the fill loop.  A loop that has been entered keeps running, which
   the fairness condition of SpecFill states for the fill loop. *)

\* Outcomes <<depth, traits>> of the constructor draws, all with repro_rate
\* 0.5 and fitness below 2, hence without offspring in the main loop: fitness
\* 1.4, 1.5 and 1.6.
LowYield14 == <<5800, [BaseTraits EXCEPT !.food_strategy = "detritivore", !.repro_rate = 50]>>
LowYield15 == <<150, [BaseTraits EXCEPT !.vision = "no_eyes", !.repro_rate = 50]>>
LowYield16 == <<5800, [BaseTraits EXCEPT !.food_strategy = "scavenger", !.repro_rate = 50]>>

\* Fitness 4.0 with four offspring, fitness 3.5 with one, and fitness 0.
HighYield ==
    <<5800, [BaseTraits EXCEPT !.vision = "no_eyes", !.pressure_adaptation = "extreme",
                               !.locomotion = "swimming"]>>
OneYield == <<150, [BaseTraits EXCEPT !.repro_rate = 20]>>
NoYield == <<5800, BaseTraits>>

\* The populations the constructor draws: six survivors of which the main loop
\* takes five offspring, with distinct and with equal fitness at the fifth
\* place; one survivor; and no creature above the threshold.
FillPopulations ==
    { <<LowYield14, OneYield, LowYield16, HighYield, LowYield15, LowYield16>>,
      <<HighYield, OneYield, LowYield15, LowYield15, LowYield15, LowYield15>>,
      <<NoYield, LowYield15>>,
      <<NoYield, NoYield>> }

InitFill ==
    \E d \in FillPopulations :
        /\ creatures = [i \in 1..Len(d) |-> Creature(i, d[i][1], d[i][2])]
        /\ generations = 0
        /\ generation_count = 0
        /\ species_log = <<>>
        /\ pc = "idle"
        /\ caller = "none"
        /\ gen = 0
        /\ survivors = <<>>
        /\ next_gen = <<>>
        /\ population_target = 0
        /\ last_call = "none"
        /\ raised = "none"
        /\ summary = NoSummary
        /\ callback_calls = 0
        /\ history = [n_creatures |-> Len(d), completed |-> 0, run_start |-> 0,
                      run_calls |-> 0, last_fill |-> 0, parents |-> <<>>]
        /\ next_id = Len(d) + 1

\* The first call of sim.run_generation() on the new simulation.
CallFirstRunGeneration == generation_count = 0 /\ CallRunGeneration

NextFill ==
    \/ CallFirstRunGeneration
    \/ Evaluate
    \/ LogSpeciesDiversity
    \/ Select
    \/ ReproduceOffspring
    \/ FillOffspring
    \/ Replace

SpecFill == InitFill /\ [][NextFill]_vars /\ WF_vars(FillOffspring)

----------------------------------------------------------------------------
(* One run_generation on simulations built from creatures whose repro_rate
   spans its range [0.2, 2.5]. *)

\* Outcomes <<depth, traits>> of the constructor draws: fitness 3.5 with
\* repro_rate 0.2 and 1.99, fitness 1.5 with repro_rate 0.5, and fitness 4.0
\* with repro_rate 2.5.
ReproduceDraws ==
    { <<150, [BaseTraits EXCEPT !.repro_rate = 20]>>,
      <<150, [BaseTraits EXCEPT !.repro_rate = 199]>>,
      <<150, [BaseTraits EXCEPT !.vision = "no_eyes", !.repro_rate = 50]>>,
      <<5800, [BaseTraits EXCEPT !.vision = "no_eyes", !.pressure_adaptation = "extreme",
                                 !.locomotion = "swimming"]>> }

InitReproduce ==
    \E n \in 0..MaxCreatures :
        /\ creatures \in {[i \in 1..n |-> Creature(i, d[i][1], d[i][2])] :
                            d \in [1..n -> ReproduceDraws]}
        /\ generations \in 0..MaxGenerations
        /\ generation_count = 0
        /\ species_log = <<>>
        /\ pc = "idle"
        /\ caller = "none"
        /\ gen = 0
        /\ survivors = <<>>
        /\ next_gen = <<>>
        /\ population_target = 0
        /\ last_call = "none"
        /\ raised = "none"
        /\ summary = NoSummary
        /\ callback_calls = 0
        /\ history = [n_creatures |-> n, completed |-> 0, run_start |-> 0, run_calls |-> 0,
                      last_fill |-> 0, parents |-> <<>>]
        /\ next_id = n + 1

SpecReproduce == InitReproduce /\ [][NextFill]_vars

----------------------------------------------------------------------------
(* The claims *)

\* run_generation has determined its survivor set; creatures is still the
\* evaluated population.
Reproducing == pc \in {"reproduce", "fill", "replace"}

\* creatures is the evaluated population of the generation in progress.
EvaluatedPhase == pc \in {"log", "select", "reproduce", "fill", "replace"}

\* No call is in progress, or run() stands between two generations.
BetweenGenerations == pc \in {"idle", "run_loop"}

ThresholdSurvivors(pop) == {i \in DOMAIN pop : pop[i].fitness > 100}

\* C1: with N >= 1 creatures at construction, the population holds exactly N
\* creatures in every state, so its size after each run_generation equals its
\* size before it, whatever the survivors and their offspring counts.
C1_PopulationSizeKept ==
    history.n_creatures >= 1 => Len(creatures) = history.n_creatures

\* C1 witness: a generation that needed the fill loop has completed on a
\* population of at least two.
C1_Witness ==
    /\ pc = "idle"
    /\ history.completed >= 1
    /\ history.last_fill >= 1
    /\ Len(creatures) >= 2

\* C2 as stated: whenever fewer than 5 creatures meet the threshold, the
\* survivor set is the min(5, N) fittest creatures and all of them are alive.
C2_TopFiveForced ==
    (Reproducing /\ Cardinality(ThresholdSurvivors(creatures)) < 5) =>
        /\ Len(survivors) = Min(5, Len(creatures))
        /\ \A k \in DOMAIN survivors : creatures[survivors[k]].alive
        /\ \A k \in DOMAIN survivors : \A j \in DOMAIN creatures :
              (\A m \in DOMAIN survivors : survivors[m] # j) =>
                  creatures[j].fitness <= creatures[survivors[k]].fitness

\* C2 amended: only when no creature exceeds the threshold is a fallback
\* taken; the survivor set is then the single fittest creature (the first of
\* the fittest in population order), whose alive flag stays false.  Otherwise
\* the survivor set is exactly the creatures above the threshold, in order.
C2_SingleFittestFallback ==
    Reproducing =>
        IF ThresholdSurvivors(creatures) = {}
        THEN /\ Len(survivors) = 1
             /\ ~creatures[survivors[1]].alive
             /\ \A j \in DOMAIN creatures :
                    /\ creatures[j].fitness <= creatures[survivors[1]].fitness
                    /\ creatures[j].fitness = creatures[survivors[1]].fitness
                          => survivors[1] <= j
        ELSE /\ {survivors[k] : k \in DOMAIN survivors} = ThresholdSurvivors(creatures)
             /\ Len(survivors) = Cardinality(ThresholdSurvivors(creatures))
             /\ \A k \in DOMAIN survivors : \A m \in DOMAIN survivors :
                    k < m => survivors[k] < survivors[m]

\* C2 witness: two creatures, none above the threshold, one survivor.
C2_Witness ==
    /\ Reproducing
    /\ Len(creatures) >= 2
    /\ ThresholdSurvivors(creatures) = {}
    /\ Len(survivors) = 1

\* C3: when every creature of the evaluated population (N >= 1) is below the
\* threshold, the population run_generation installs has at least min(5, N)
\* alive creatures, and at least one.
C3_ExtinctionGuard ==
    [][(pc = "replace" /\ ThresholdSurvivors(creatures) = {}) =>
          /\ Cardinality(AliveIdx(creatures')) >= Min(5, Len(creatures))
          /\ Cardinality(AliveIdx(creatures')) >= 1]_vars

\* C3 witness: a generation in which no creature was logged alive has
\* completed on a population of at least two, all of which are alive now.
C3_Witness ==
    /\ BetweenGenerations
    /\ history.completed >= 1
    /\ Len(species_log) = generation_count
    /\ species_log[Len(species_log)].total_species = 0
    /\ Len(creatures) >= 2
    /\ Cardinality(AliveIdx(creatures)) = Len(creatures)

\* C4 as stated: after evaluation a creature is alive exactly when its
\* fitness is greater than or equal to 1.0.
C4_AliveIffAtLeastThreshold ==
    EvaluatedPhase =>
        \A i \in DOMAIN creatures : creatures[i].alive <=> creatures[i].fitness >= 100

\* C4 amended: after evaluation a creature is alive exactly when its fitness
\* is strictly greater than 1.0; a creature at exactly 1.0 is not a survivor.
C4_AliveIffAboveThreshold ==
    EvaluatedPhase =>
        \A i \in DOMAIN creatures : creatures[i].alive <=> creatures[i].fitness > 100

\* C4 witness: an evaluated creature with fitness exactly 1.0 that is not alive.
C4_Witness ==
    /\ pc = "log"
    /\ \E i \in DOMAIN creatures : creatures[i].fitness = 100 /\ ~creatures[i].alive

\* C5: in every state every creature of the population carries the name
\* derived from its current depth and vision.
C5_NameFollowsDepth ==
    \A i \in DOMAIN creatures :
        creatures[i].species_name
            = <<depth_prefix(creatures[i].depth), vision_suffix(creatures[i].traits["vision"])>>

\* C6 as stated: when run_generation has returned, the newest log entry
\* aggregates the population it installed, under the incremented count.
C6_LogAfterReplacement ==
    (/\ BetweenGenerations
     /\ history.n_creatures >= 1
     /\ history.completed >= 1
     /\ last_call \in {"run", "run_generation"}) =>
        /\ species_log[Len(species_log)].species = SpeciesCount(creatures)
        /\ species_log[Len(species_log)].generation = generation_count

\* C6 amended: the entry is appended right after evaluation and before any
\* offspring exists; it aggregates the evaluated population under the count
\* not yet incremented, so after the return its generation is count - 1.
C6_LogBeforeReproduction ==
    /\ pc = "select" => next_gen = <<>>
    /\ pc \in {"select", "reproduce", "fill", "replace"} =>
          /\ Len(species_log) >= 1
          /\ species_log[Len(species_log)].species = SpeciesCount(creatures)
          /\ species_log[Len(species_log)].generation = generation_count
    /\ (BetweenGenerations /\ history.n_creatures >= 1 /\ history.completed >= 1) =>
          species_log[Len(species_log)].generation = generation_count - 1

\* C6 witness: a full next generation stands ready for replacement while the
\* newest entry describes the evaluated population.
C6_Witness ==
    /\ pc = "replace"
    /\ Len(next_gen) >= 2
    /\ species_log[Len(species_log)].total_species >= 1
    /\ species_log[Len(species_log)].species = SpeciesCount(creatures)

\* C7: with N >= 1, between generations generation_count and the length of
\* species_log both equal the number of completed run_generation calls, every
\* entry has total_species <= N, and no step changes or removes an entry.
C7_LogCountsGenerations ==
    [][/\ (BetweenGenerations' /\ history.n_creatures >= 1) =>
            /\ generation_count' = history'.completed
            /\ Len(species_log') = history'.completed
            /\ \A e \in DOMAIN species_log' :
                  species_log'[e].total_species <= history.n_creatures
       /\ Len(species_log') >= Len(species_log)
       /\ SubSeq(species_log', 1, Len(species_log)) = species_log]_vars

\* C7 witness: two generations completed, two entries.
C7_Witness ==
    /\ pc = "idle"
    /\ history.n_creatures >= 2
    /\ history.completed = 2
    /\ generation_count = 2
    /\ Len(species_log) = 2

\* C8: a call of get_species_summary ends without error and returns, for each
\* species among the alive creatures, its count, mean fitness and depth range.
C8_SummaryReturned ==
    last_call = "get_species_summary" =>
        /\ raised = "none"
        /\ summary.returned
        /\ summary.value = SpeciesCount(creatures)

\* C9: with N >= 1, run() calls run_generation one after another, and when it
\* returns it has made exactly `generations` calls and generation_count has
\* grown by exactly `generations`.
C9_RunCallsGenerations ==
    /\ (caller = "run" /\ pc = "run_loop") =>
          /\ history.run_calls = gen
          /\ generation_count = history.run_start + gen
    /\ (caller = "run" /\ EvaluatedPhase) => history.run_calls = gen + 1
    /\ (pc = "idle" /\ last_call = "run" /\ raised = "none") =>
          /\ history.run_calls = generations
          /\ generation_count = history.run_start + generations

\* C9 witness: a run() of two generations has returned.
C9_Witness ==
    /\ pc = "idle"
    /\ last_call = "run"
    /\ raised = "none"
    /\ history.n_creatures >= 1
    /\ generations = 2
    /\ history.run_calls = 2

\* C10: run() called with a progress callback accepts it and invokes it once
\* per completed generation.
C10_CallbackAccepted ==
    last_call = "run_with_callback" =>
        /\ raised = "none"
        /\ callback_calls = generations

\* C11: every creature derived by any number of mutate calls has exactly the
\* trait keys of the creature constructed first: none lost, none added.
C11_SchemaKept ==
    \A i \in DOMAIN creatures :
        DOMAIN creatures[i].traits = DOMAIN creatures[1].traits

\* C11 witness: two mutate calls, the last of which redrew every categorical
\* and changed every numerical trait.
C11_Witness ==
    /\ Len(creatures) = 3
    /\ DOMAIN history.catDraw = DOMAIN categorical_traits
    /\ DOMAIN history.numDraw = DOMAIN numerical_traits
    /\ DOMAIN creatures[3].traits = TraitKeys

\* C12: every continuous trait of a randomly constructed creature and of every
\* creature derived from it by mutate lies within [min_val, max_val].
C12_ContinuousInRange ==
    \A i \in DOMAIN creatures : \A k \in DOMAIN numerical_traits :
        /\ numerical_traits[k][1] <= creatures[i].traits[k]
        /\ creatures[i].traits[k] <= numerical_traits[k][2]

\* C12 witness: a change that would have left the range was clamped: the
\* parent's repro_rate was at 2.5, the change was +0.2, the child's is 2.5.
C12_Witness ==
    /\ Len(creatures) >= 2
    /\ "repro_rate" \in DOMAIN history.numDraw
    /\ history.numDraw["repro_rate"] = 20
    /\ creatures[Len(creatures) - 1].traits["repro_rate"] = 250
    /\ creatures[Len(creatures)].traits["repro_rate"] = 250

\* C13: mutate with mutation rate 0.0 returns a creature with the parent's
\* traits in every key and the parent's depth, and it is a new object.
C13_RateZeroCopies ==
    (last_call = "mutate" /\ history.called /\ history.mutation_rate = 0) =>
        LET child == creatures[Len(creatures)]
            parent == creatures[Len(creatures) - 1]
        IN  /\ child.traits = parent.traits
            /\ child.depth = parent.depth
            /\ \A i \in 1..(Len(creatures) - 1) : creatures[i].id # child.id

\* C13 witness: a mutate call at rate 0.0 in which every random() gave 0.0.
C13_Witness ==
    /\ last_call = "mutate"
    /\ history.called
    /\ history.mutation_rate = 0
    /\ \A k \in TraitKeys : history.rolls[k] = 0
    /\ Len(creatures) = 3

\* C14: for every depth d >= 0 get_layer(d) returns a layer and does not fail:
\* when d < 6000 the one layer whose half-open range [min_depth, max_depth)
\* contains d, the four ranges covering [0, 6000) contiguously without gap or
\* overlap, and when d >= 6000 the last layer.
C14_LayerOfDepth ==
    (last_call = "get_layer" /\ creatures[1].depth >= 0) =>
        LET d == creatures[1].depth
            Holds(i) == layers[i].depth_range[1] <= d /\ d < layers[i].depth_range[2]
        IN  /\ raised = "none"
            /\ summary.returned
            /\ \E i \in DOMAIN layers : summary.value = layers[i]
            /\ layers[1].depth_range[1] = 0
            /\ layers[Len(layers)].depth_range[2] = 6000
            /\ \A i \in DOMAIN layers :
                /\ layers[i].depth_range[1] < layers[i].depth_range[2]
                /\ i < Len(layers) =>
                        layers[i].depth_range[2] = layers[i + 1].depth_range[1]
            /\ d < 6000 =>
                /\ summary.value.depth_range[1] <= d
                /\ d < summary.value.depth_range[2]
                /\ Cardinality({i \in DOMAIN layers : Holds(i)}) = 1
            /\ d >= 6000 => summary.value = layers[Len(layers)]

\* get_layer has been applied at the lower end of a range and past the last.
C14_Witness ==
    /\ last_call = "get_layer"
    /\ \/ creatures[1].depth = 100 /\ summary.value.name = "Mid-depth"
       \/ creatures[1].depth = 6000 /\ summary.value.name = "Abyss"

\* C15: generate_species_name depends on depth and vision only: prefix
\* Superficie on [0,200), Meso on [200,1000), Bathy on [1000,4000), Abysso on
\* [4000,6000) and at every other depth; suffix from the vision table, mysticus
\* for an unknown vision; crossing a band boundary changes the prefix.
C15_NameOfDepthAndVision ==
    last_call = "generate_species_name" =>
        LET d == creatures[1].depth
            v == creatures[1].traits["vision"]
            prefix == CASE 0 <= d /\ d < 200 -> "Superficie"
                        [] 200 <= d /\ d < 1000 -> "Meso"
                        [] 1000 <= d /\ d < 4000 -> "Bathy"
                        [] OTHER -> "Abysso"
            suffix == CASE v = "eyes" -> "opticus"
                        [] v = "no_eyes" -> "caecus"
                        [] v = "bioluminescence" -> "lucidus"
                        [] v = "echolocation" -> "sonarus"
                        [] v = "lateral_line" -> "lateralis"
                        [] v = "compound_eyes" -> "multiopus"
                        [] OTHER -> "mysticus"
        IN  /\ raised = "none"
            /\ summary.value = <<prefix, suffix>>
            /\ \A b \in {200, 1000, 4000} : depth_prefix(b - 1) # depth_prefix(b)

\* A name has been generated at a band boundary for a creature whose other
\* traits differ from the base creature's, and for an unknown vision.
C15_Witness ==
    /\ last_call = "generate_species_name"
    /\ \/ /\ creatures[1].depth = 200
          /\ creatures[1].traits["size"] = "giant"
          /\ summary.value = <<"Meso", "opticus">>
       \/ /\ creatures[1].depth = -1
          /\ creatures[1].traits["vision"] = "unknown"
          /\ summary.value = <<"Abysso", "mysticus">>

\* The sum of every term of evaluate_fitness, clamped at 0, in units of 1/6000.
FullFitness6000(c) ==
    Max(0, 60 * (RawFitness(c) + evaluate_vision_fitness(c)
                 + evaluate_pressure_fitness(c) + evaluate_locomotion_fitness(c)
                 + evaluate_size_fitness(c) + evaluate_defense_fitness(c)
                 + evaluate_social_fitness(c) + evaluate_metabolic_fitness(c))
           + evaluate_tolerance_fitness(c))

\* C16: evaluate_fitness stores the clamped sum of the compatibility score, the
\* food bonus and the vision, pressure, locomotion, size, defense, social,
\* metabolic and tolerance adjustments.
C16_AllTermsStored ==
    (last_call = "evaluate_fitness" /\ raised = "none") =>
        60 * creatures[1].fitness = FullFitness6000(creatures[1])

\* C17: fitness is never negative: every creature's fitness is >= 0 in every
\* state, and evaluate_fitness stores max(0, raw score), exactly 0 for a
\* negative raw score.
C17_FitnessNeverNegative ==
    /\ \A i \in DOMAIN creatures : creatures[i].fitness >= 0
    /\ \A i \in DOMAIN next_gen : next_gen[i].fitness >= 0
    /\ pc = "log" =>
        \A i \in DOMAIN creatures :
            creatures[i].fitness = IF RawFitness(creatures[i]) < 0 THEN 0
                                   ELSE RawFitness(creatures[i])

\* A creature with a negative raw score has been evaluated.
C17_Witness ==
    /\ pc = "log"
    /\ \E i \in DOMAIN creatures :
        RawFitness(creatures[i]) < 0 /\ creatures[i].fitness = 0

\* C18: for a Simulation built with N >= 1 creatures no call of run_generation,
\* run or get_species_summary raises.
C18_NoCallRaises ==
    (history.n_creatures >= 1
        /\ last_call \in {"run_generation", "run", "get_species_summary"})
    => raised = "none"

\* C19: a creature with a categorical trait value outside its enumeration is
\* scored and named without failure.
C19_UnknownValuesTolerated ==
    (/\ last_call \in {"evaluate_fitness", "generate_species_name"}
     /\ \E k \in {"vision", "pressure_adaptation", "food_strategy", "body_type",
                  "locomotion", "size", "defense_mechanism", "social_behavior"} :
            creatures[1].traits[k] \notin categorical_traits[k])
    => raised = "none"

\* The survivors the main loop of run_generation has taken offspring from.
Reproducers == {MainParents(creatures, survivors, population_target)[k] :
                  k \in DOMAIN MainParents(creatures, survivors, population_target)}

\* The main loop alone reaches the population target.
MainLoopFillsTarget ==
    /\ pc \in {"reproduce", "replace"}
    /\ Len(MainParents(creatures, survivors, population_target)) = population_target

\* C20 as stated: when the next generation reaches N before every survivor has
\* reproduced, no survivor without offspring is fitter than one with offspring.
C20_FittestReproduceFirst ==
    MainLoopFillsTarget =>
        \A s \in DOMAIN survivors : \A r \in Reproducers :
            survivors[s] \notin Reproducers =>
                creatures[survivors[s]].fitness <= creatures[r].fitness

\* C20: survivors are processed as parents in population order: the parents of
\* successive offspring never step back in the population, and a survivor with
\* offspring to give that gave none stands after every survivor that did.
C20_PopulationOrder ==
    pc \in {"reproduce", "fill", "replace"} =>
        LET main == {k \in DOMAIN history.parents : history.parents[k].loop = "main"}
            Place(k) == CHOOSE i \in DOMAIN creatures :
                            creatures[i].id = history.parents[k].parent
        IN  /\ \A a, b \in main : a < b => Place(a) <= Place(b)
            /\ \A s \in DOMAIN survivors :
                (/\ \A k \in main : Place(k) # survivors[s]
                 /\ offspring_num(creatures[survivors[s]]) > 0)
                => \A k \in main : Place(k) < survivors[s]

\* The main loop has filled the next generation from a survivor while a fitter
\* survivor later in the population gave no offspring.
C20_Witness ==
    /\ pc = "replace"
    /\ MainLoopFillsTarget
    /\ \E s \in DOMAIN survivors : \E r \in Reproducers :
        /\ survivors[s] \notin Reproducers
        /\ r < survivors[s]
        /\ creatures[survivors[s]].fitness > creatures[r].fitness

\* The number of offspring the main loop took from the creature with identity id.
MainOffspringOf(id) ==
    Cardinality({k \in DOMAIN history.parents :
                    history.parents[k].loop = "main" /\ history.parents[k].parent = id})

\* The room left in next_gen when the main loop reaches survivors[s].
RoomAt(s) ==
    population_target
    - Cardinality({k \in DOMAIN history.parents :
                    /\ history.parents[k].loop = "main"
                    /\ \E j \in 1..(s - 1) :
                        history.parents[k].parent = creatures[survivors[j]].id})

\* The main loop of run_generation has ended.
MainLoopDone == pc \in {"fill", "replace"}

\* C21 as stated: every survivor gives floor(repro_rate) * min(2, fitness / 2)
\* offspring, rounded down, cut short only by the population target.
C21_FloorOfReproRate ==
    MainLoopDone =>
        \A s \in DOMAIN survivors :
            LET c == creatures[survivors[s]]
                claimed == ((c.traits["repro_rate"] \div 100) * Min(400, c.fitness)) \div 200
            IN  MainOffspringOf(c.id) = Min(Max(0, RoomAt(s)), claimed)

\* C21: every survivor gives max(1, floor(repro_rate)) * min(2, fitness / 2)
\* offspring, rounded down, cut short only by the population target: a
\* repro_rate below 1 counts as 1.
C21_AtLeastOneBaseOffspring ==
    MainLoopDone =>
        \A s \in DOMAIN survivors :
            LET c == creatures[survivors[s]]
                base_offspring == IF c.traits["repro_rate"] < 100 THEN 1
                                  ELSE c.traits["repro_rate"] \div 100
                number == (base_offspring * Min(400, c.fitness)) \div 200
            IN  MainOffspringOf(c.id) = Min(Max(0, RoomAt(s)), number)

\* A survivor with repro_rate below 1 has given an offspring, and a survivor
\* with repro_rate below 1 and fitness below 2 has given none.
C21_Witness ==
    /\ MainLoopDone
    /\ \E s \in DOMAIN survivors :
        /\ creatures[survivors[s]].traits["repro_rate"] = 20
        /\ MainOffspringOf(creatures[survivors[s]].id) = 1
    /\ \E s \in DOMAIN survivors :
        /\ creatures[survivors[s]].traits["repro_rate"] = 50
        /\ RoomAt(s) > 0
        /\ MainOffspringOf(creatures[survivors[s]].id) = 0

\* The survivors that sorted(survivors, key=fitness, reverse=True) puts among
\* its first five: fewer than five survivors come before them.
FiveFittestSurvivors ==
    {survivors[k] : k \in {k \in DOMAIN survivors :
        Cardinality({j \in DOMAIN survivors :
            \/ creatures[survivors[j]].fitness > creatures[survivors[k]].fitness
            \/ /\ creatures[survivors[j]].fitness = creatures[survivors[k]].fitness
               /\ j < k}) < 5}}

\* Every creature the fill loop has appended is a new creature mutated from one
\* of the five fittest survivors, at a depth in [0, 6000]; the loop stops at N.
FillLoopSafe ==
    pc \in {"fill", "replace"} =>
        /\ Len(next_gen) <= population_target
        /\ Len(history.parents) = Len(next_gen)
        /\ pc = "replace" => Len(next_gen) = population_target
        /\ \A k \in DOMAIN next_gen :
            history.parents[k].loop = "fill" =>
                /\ k > Len(MainParents(creatures, survivors, population_target))
                /\ \E p \in FiveFittestSurvivors : creatures[p].id = history.parents[k].parent
                /\ \A i \in DOMAIN creatures : next_gen[k].id # creatures[i].id
                /\ DOMAIN next_gen[k].traits = TraitKeys
                /\ 0 <= next_gen[k].depth /\ next_gen[k].depth <= 6000

\* C22: when the main loop yields fewer than N offspring the fill loop brings
\* the next generation to exactly N, every filler is a mutation of one of the
\* at most five fittest survivors with a fresh depth in [0, 6000], and the
\* fill loop terminates.
C22_FillFromFiveFittest ==
    /\ []FillLoopSafe
    /\ (pc = "fill") ~> (pc = "replace")

\* The fill loop has completed a generation from the five fittest of more than
\* five survivors, with a filler more than 500 m away from its parent.
C22_Witness ==
    /\ pc = "replace"
    /\ Len(survivors) > 5
    /\ Cardinality(FiveFittestSurvivors) = 5
    /\ Len(next_gen) = population_target
    /\ \E k \in DOMAIN next_gen :
        /\ history.parents[k].loop = "fill"
        /\ \E i \in DOMAIN creatures :
            /\ creatures[i].id = history.parents[k].parent
            /\ Abs(next_gen[k].depth - creatures[i].depth) > 500

\* C23: every creature of the population has its depth in [0, 6000] in every
\* state, and every offspring of the main reproduction loop lies at its
\* parent's depth plus a delta of at most 500 either way, clamped to [0, 6000].
C23_DepthInRange ==
    /\ \A i \in DOMAIN creatures : 0 <= creatures[i].depth /\ creatures[i].depth <= 6000
    /\ \A k \in DOMAIN next_gen :
        /\ 0 <= next_gen[k].depth /\ next_gen[k].depth <= 6000
        /\ history.parents[k].loop = "main" =>
            \E i \in DOMAIN creatures :
                /\ creatures[i].id = history.parents[k].parent
                /\ Max(0, creatures[i].depth - 500) <= next_gen[k].depth
                /\ next_gen[k].depth <= Min(6000, creatures[i].depth + 500)

\* An offspring of the main loop drawn 500 m above a parent at 150 m has been
\* clamped to depth 0.
C23_Witness ==
    /\ pc = "replace"
    /\ \E k \in DOMAIN next_gen : \E i \in DOMAIN creatures :
        /\ history.parents[k].loop = "main"
        /\ creatures[i].id = history.parents[k].parent
        /\ creatures[i].depth = 150
        /\ next_gen[k].depth = 0

\* The pressure tier of the depth band that gives a name its prefix.
TierOfPrefix(prefix) ==
    CASE prefix = "Superficie" -> 1 [] prefix = "Meso" -> 2
      [] prefix = "Bathy" -> 3 [] prefix = "Abysso" -> 4

TierOfAdaptation(adaptation) ==
    CASE adaptation = "low" -> 1 [] adaptation = "medium" -> 2
      [] adaptation = "high" -> 3 [] adaptation = "extreme" -> 4

\* C24: at every depth from 0 to 6000 inclusive the pressure adaptation that
\* compatibility scoring requires is the one of the depth band that gives the
\* species name its prefix: a creature with that adaptation scores +1.5, one
\* tier away +0.5, two or more tiers away -1.0.
C24_PressureBandIsNameBand ==
    (/\ last_call = "calculate_trait_compatibility"
     /\ raised = "none"
     /\ 0 <= creatures[1].depth /\ creatures[1].depth <= 6000
     /\ creatures[1].traits["pressure_adaptation"] \in possible_pressure_adaptation)
    =>
        LET c == creatures[1]
            away == Abs(TierOfAdaptation(c.traits["pressure_adaptation"])
                        - TierOfPrefix(c.species_name[1]))
            others == VisionScore(c.depth, c.traits["vision"])
                      + FoodScore(get_layer(c.depth).food_type, c.traits["food_strategy"])
                      + SynergyScore(c.traits["body_type"], c.traits["locomotion"])
        IN  summary.value - others = (IF away = 0 THEN 150 ELSE IF away = 1 THEN 50 ELSE -100)

\* C25: mutate returns a new creature at the parent's depth whose trait mapping
\* is its own, so that a later store into one creature's traits changes no
\* other creature's, and it leaves the parent's traits, depth, fitness, alive
\* flag and species_name as they were.
C25_MutateLeavesParent ==
    [][/\ last_call' = "mutate" =>
            LET parent == creatures[Len(creatures)]
                child == creatures'[Len(creatures')]
            IN  /\ Len(creatures') = Len(creatures) + 1
                /\ \A i \in DOMAIN creatures :
                    /\ creatures'[i] = creatures[i]
                    /\ child.id # creatures[i].id
                    /\ child.traits_ref # creatures[i].traits_ref
                /\ child.depth = parent.depth
       /\ last_call' = "set_trait" =>
            /\ Len(creatures') = Len(creatures)
            /\ Cardinality({i \in DOMAIN creatures : creatures'[i] # creatures[i]}) <= 1
      ]_vars

\* A parent evaluated to fitness 3.5 has been mutated in every categorical
\* trait, and its offspring's vision has then been overwritten by a caller.
C25_Witness ==
    /\ pc = "stored"
    /\ Len(creatures) = 2
    /\ creatures[1].fitness = 350
    /\ creatures[1].traits["vision"] = "eyes"
    /\ creatures[1].traits["size"] = "medium"
    /\ creatures[2].traits["size"] = "giant"
    /\ creatures[2].traits["vision"] = "echolocation"

\* Before the reproduction step no offspring exists; once one exists, every
\* creature of the population carries its evaluated fitness and the alive flag
\* of the threshold, and survivors is the complete survivor set: the creatures
\* above the threshold in population order or, failing any, the single fittest.
OffspringAfterSelection ==
    /\ pc \in {"idle", "run_loop", "evaluate", "log", "select"} =>
            next_gen = <<>> /\ history.parents = <<>>
    /\ next_gen # <<>> =>
        /\ pc \in {"reproduce", "fill", "replace"}
        /\ \A i \in DOMAIN creatures :
            /\ creatures[i].fitness = Max(0, RawFitness(creatures[i]))
            /\ creatures[i].alive = (creatures[i].fitness > 100)
        /\ survivors # <<>>
        /\ \A a, b \in DOMAIN survivors : a < b => survivors[a] < survivors[b]
        /\ IF ThresholdSurvivors(creatures) # {}
           THEN {survivors[k] : k \in DOMAIN survivors} = ThresholdSurvivors(creatures)
           ELSE /\ Len(survivors) = 1
                /\ \A i \in DOMAIN creatures :
                    creatures[i].fitness <= creatures[survivors[1]].fitness

\* C26: within run_generation no offspring is created before every creature
\* has been evaluated and flagged and the complete survivor set (fallback
\* included) is determined, and a generation starts only when no generation is
\* in progress: the previous one has replaced the population and dropped its
\* survivors and offspring.
C26_EvaluateSelectReproduce ==
    /\ []OffspringAfterSelection
    /\ [][pc' = "evaluate" =>
            /\ pc \in {"idle", "run_loop"}
            /\ survivors = <<>> /\ next_gen = <<>>
            /\ generation_count = history.completed]_vars

\* In a second generation an offspring exists while a creature of the evaluated
\* population is flagged dead.
C26_Witness ==
    /\ pc = "reproduce"
    /\ history.completed = 1
    /\ Len(next_gen) = 1
    /\ \E i \in DOMAIN creatures : ~creatures[i].alive
    /\ \E i \in DOMAIN creatures : creatures[i].alive

\* C27: a Simulation with N = 0 is guarded: a run_generation call that fails on
\* the empty population leaves the state as it was, appending no species_log
\* entry and not incrementing generation_count, so the log stays as long as
\* the count.
C27_EmptyPopulationGuarded ==
    (history.n_creatures = 0 /\ pc = "idle") =>
        /\ Len(species_log) = generation_count
        /\ raised # "none" => species_log = <<>>

\* C28: at every generation boundary, right after construction and right after
\* each run_generation returns, every creature of the population has alive =
\* true and fitness = 0.
C28_BoundaryPopulationUnevaluated ==
    BetweenGenerations =>
        \A i \in DOMAIN creatures : creatures[i].alive /\ creatures[i].fitness = 0

\* Two generations have completed, the second from a population without a
\* creature above the threshold, and the population is back at two creatures.
C28_Witness ==
    /\ pc = "idle"
    /\ history.completed = 2
    /\ Len(creatures) = 2
    /\ Len(species_log) = 2
    /\ species_log[2].total_species = 0

\* The offspring next_gen[k] is what mutate makes of parent: every categorical
\* trait is the parent's or a value of its list, every continuous trait lies
\* within its mutation strength of the parent's and within its range.
MutationOf(child, parent) ==
    /\ DOMAIN child.traits = DOMAIN parent.traits
    /\ \A t \in DOMAIN categorical_traits :
        child.traits[t] = parent.traits[t] \/ child.traits[t] \in categorical_traits[t]
    /\ \A t \in DOMAIN numerical_traits :
        /\ Abs(child.traits[t] - parent.traits[t]) <= numerical_traits[t][3]
        /\ numerical_traits[t][1] <= child.traits[t]
        /\ child.traits[t] <= numerical_traits[t][2]
    /\ child.alive /\ child.fitness = 0

\* Every offspring is a new object mutated from a member of the survivor set,
\* which holds the creatures above the threshold or else the single fittest.
OffspringOfSurvivors ==
    /\ next_gen # <<>> =>
        {survivors[k] : k \in DOMAIN survivors} =
            IF ThresholdSurvivors(creatures) # {} THEN ThresholdSurvivors(creatures)
            ELSE {FittestIdx(creatures)}
    /\ \A k \in DOMAIN next_gen :
        /\ \A i \in DOMAIN creatures :
            /\ next_gen[k].id # creatures[i].id
            /\ next_gen[k].traits_ref # creatures[i].traits_ref
        /\ \A j \in DOMAIN next_gen : j # k => next_gen[j].id # next_gen[k].id
        /\ \E s \in DOMAIN survivors :
            /\ creatures[survivors[s]].id = history.parents[k].parent
            /\ MutationOf(next_gen[k], creatures[survivors[s]])

\* C29: the population after run_generation consists of new objects that
\* mutate produced from members of the generation's survivor set; no creature
\* object of the previous population is carried over and no creature outside
\* the survivor set is a parent.
C29_PopulationFromSurvivors ==
    /\ []OffspringOfSurvivors
    /\ [][pc = "replace" =>
            /\ creatures' = next_gen
            /\ \A i \in DOMAIN creatures' : \A j \in DOMAIN creatures :
                    creatures'[i].id # creatures[j].id]_vars

\* A full next generation stands ready whose parents leave out a creature of
\* the population that was below the threshold.
C29_Witness ==
    /\ pc = "replace"
    /\ Len(creatures) = 2
    /\ Len(next_gen) = 2
    /\ Len(survivors) = 1
    /\ ThresholdSurvivors(creatures) # {}
    /\ \E k \in DOMAIN next_gen : next_gen[k].traits # creatures[survivors[1]].traits

\* C30: the entry the k-th run_generation call appends is a snapshot of the
\* evaluated population before reproduction: its generation is k - 1, its
\* species counts add up to the creatures flagged alive by the threshold,
\* total_species is the number of species keys, and it records no species when
\* no creature is above the threshold.
C30_LogEntryOfCall ==
    /\ \A k \in DOMAIN species_log :
        /\ species_log[k].generation = k - 1
        /\ species_log[k].total_species = Cardinality(DOMAIN species_log[k].species)
    /\ (pc \in {"select", "reproduce", "fill", "replace"}) =>
        LET entry == species_log[Len(species_log)]
            alive_names == {creatures[i].species_name : i \in ThresholdSurvivors(creatures)}
        IN  /\ DOMAIN entry.species = alive_names
            /\ \A name \in alive_names :
                entry.species[name].count =
                    Cardinality({i \in ThresholdSurvivors(creatures) :
                                    creatures[i].species_name = name})
            /\ ThresholdSurvivors(creatures) = {} => entry.total_species = 0

=============================================================================
